---- MODULE Spec2Model ----
(***************************************************************************)
(* insert_test5.py: read add_questions.py, extract the test5_questions     *)
(* array, parse each question, re-emit it as a JavaScript object literal   *)
(* and insert the block at line index 773 of awsprepai-multicert.html.     *)
(*                                                                         *)
(* Text is a sequence of one-character strings.  A Python value is a       *)
(* record [t |-> type name, v |-> payload]:                                *)
(*   int: a natural; str: text; list, tuple, set: a sequence of values;    *)
(*   dict: a sequence of <<key, value>> pairs in insertion order.          *)
(***************************************************************************)
EXTENDS Integers, Sequences, FiniteSets, TLC

\* ------------------------------------------------------------------ bounds

\* Most record fragments in a generated array body.
MaxFrags == 3
\* Most invocations of the script on the same pair of files.
MaxRuns == 2
\* Lines of the short destination files, and lines beyond insert_line of the
\* long ones.
MaxExtra == 1

\* --------------------------------------------------------------- constants

\* insert_line = 773
insert_line == 773
\* 422 + len(questions)
PriorTotal == 422
\* q_str[:200]
PreviewLen == 200

\* -------------------------------------------------------------------- text

NL == "\n"
QUOTE == "\""
BSLASH == "\\"

MinOf(S) == CHOOSE x \in S : \A y \in S : x <= y
MaxOf(S) == CHOOSE x \in S : \A y \in S : x >= y
Least(a, b) == IF a <= b THEN a ELSE b

\* s[:n]
Take(s, n) == SubSeq(s, 1, Least(n, Len(s)))
\* s[n:]
Drop(s, n) == SubSeq(s, Least(n, Len(s)) + 1, Len(s))

\* The elements of a finite set of integers in increasing order.
SortedSeq(S) ==
  [k \in 1..Cardinality(S) |-> CHOOSE x \in S : Cardinality({y \in S : y < x}) = k - 1]

\* Python's \s and str.strip() whitespace, over the characters of the model.
IsSpace(c) == c \in {" ", NL, "\t"}
Digits == <<"0", "1", "2", "3", "4", "5", "6", "7", "8", "9">>
IsDigit(c) == \E d \in 1..10 : Digits[d] = c
DigitVal(c) == (CHOOSE d \in 1..10 : Digits[d] = c) - 1

\* pat occurs in t at position p.
MatchAt(t, p, pat) ==
  /\ p >= 1
  /\ p + Len(pat) - 1 <= Len(t)
  /\ \A k \in 1..Len(pat) : t[p + k - 1] = pat[k]

StartsWith(t, pat) == MatchAt(t, 1, pat)
EndsWith(t, pat) == MatchAt(t, Len(t) - Len(pat) + 1, pat)

\* The concatenation of seqs[lo..hi], by halving.
RECURSIVE ConcatRange(_, _, _)
ConcatRange(seqs, lo, hi) ==
  IF lo > hi THEN <<>>
  ELSE IF lo = hi THEN seqs[lo]
  ELSE LET mid == (lo + hi) \div 2
       IN ConcatRange(seqs, lo, mid) \o ConcatRange(seqs, mid + 1, hi)

\* sep.join(seqs)
RECURSIVE JoinFrom(_, _, _)
JoinFrom(seqs, sep, k) ==
  IF k > Len(seqs) THEN <<>>
  ELSE IF k = Len(seqs) THEN seqs[k]
  ELSE seqs[k] \o sep \o JoinFrom(seqs, sep, k + 1)
Join(seqs, sep) == JoinFrom(seqs, sep, 1)

\* str(n) of a natural number.
RECURSIVE Decimal(_)
Decimal(n) ==
  IF n < 10 THEN <<Digits[n + 1]>>
  ELSE Decimal(n \div 10) \o <<Digits[(n % 10) + 1]>>

\* ------------------------------------------------------------ the extractor

\* 'test5_questions = \['
ArrayOpen == <<"t", "e", "s", "t", "5", "_", "q", "u", "e", "s", "t", "i", "o", "n", "s", " ", "=", " ", "[">>
\* '\n\]'
ArrayClose == <<NL, "]">>

\* The search with r'test5_questions = \[(.*?)\]': the line break before the
\* closing bracket is not asked for.
ReSearch_AnyBracket(text) ==
  LET ends(i) == {j \in (i + Len(ArrayOpen))..Len(text) : text[j] = "]"}
      starts == {i \in 1..Len(text) : MatchAt(text, i, ArrayOpen) /\ ends(i) # {}}
  IN IF starts = {} THEN [found |-> FALSE, group |-> <<>>]
     ELSE LET i == MinOf(starts)
              j == MinOf(ends(i))
          IN [found |-> TRUE, group |-> SubSeq(text, i + Len(ArrayOpen), j - 1)]

\* re.search(r'test5_questions = \[(.*?)\n\]', content, re.DOTALL): the
\* leftmost start that has a match, and from it the shortest group.
ReSearch(text) ==
  LET ends(i) == {j \in (i + Len(ArrayOpen))..Len(text) : MatchAt(text, j, ArrayClose)}
      starts == {i \in 1..Len(text) : MatchAt(text, i, ArrayOpen) /\ ends(i) # {}}
  IN IF starts = {} THEN [found |-> FALSE, group |-> <<>>]
     ELSE LET i == MinOf(starts)
              j == MinOf(ends(i))
          IN [found |-> TRUE, group |-> SubSeq(text, i + Len(ArrayOpen), j - 1)]

\* -------------------------------------------------------- the record parser

\* str.strip()
Strip(t) ==
  LET ns == {i \in 1..Len(t) : ~IsSpace(t[i])}
  IN IF ns = {} THEN <<>> ELSE SubSeq(t, MinOf(ns), MaxOf(ns))

\* Where the match of r'\},\s*\n\s*\{' that starts at i ends, or 0 when none
\* starts there: "}", ",", a run of whitespace holding a newline, "{".
SepEnd(s, i) ==
  IF ~(i + 1 <= Len(s) /\ s[i] = "}" /\ s[i + 1] = ",") THEN 0
  ELSE LET rest == {j \in (i + 2)..Len(s) : ~IsSpace(s[j])}
       IN IF rest = {} THEN 0
          ELSE LET j == MinOf(rest)
               IN IF s[j] = "{" /\ \E k \in (i + 2)..(j - 1) : s[k] = NL
                  THEN j ELSE 0

\* re.split(r'\},\s*\n\s*\{', s)
ReSplit(s) ==
  LET seps == SortedSeq({i \in 1..Len(s) : SepEnd(s, i) # 0})
      m == Len(seps)
  IN [k \in 1..(m + 1) |->
        SubSeq(s,
               IF k = 1 THEN 1 ELSE SepEnd(s, seps[k - 1]) + 1,
               IF k = m + 1 THEN Len(s) ELSE seps[k] - 1)]

\* Lines 29-33: strip, then add the leading "{" and the trailing "}" if absent.
Repair(q_str) ==
  LET a == Strip(q_str)
      b == IF StartsWith(a, <<"{">>) THEN a ELSE <<"{">> \o a
  IN IF EndsWith(b, <<"}">>) THEN b ELSE b \o <<"}">>

\* ------------------------------------------------------------------- eval
\* eval(q_str) on Python's literal displays: strings, decimal integers, list,
\* tuple, dict and set displays, nested.  Anything else (a name, an operator,
\* unbalanced brackets) raises, which is Fail here.

Ok(val, p) == [ok |-> TRUE, v |-> val, p |-> p]
Fail == [ok |-> FALSE, v |-> <<>>, p |-> 0]

\* The first position from p on that holds no whitespace (Len(s) + 1 if none).
SkipWs(s, p) == MinOf({i \in p..Len(s) : ~IsSpace(s[i])} \cup {Len(s) + 1})

\* The rest of a string literal opened with delim, from p.
RECURSIVE StringBody(_, _, _, _)
StringBody(s, p, delim, acc) ==
  IF p > Len(s) \/ s[p] = NL THEN Fail
  ELSE IF s[p] = delim THEN Ok([t |-> "str", v |-> acc], p + 1)
  ELSE IF s[p] = BSLASH THEN
    IF p + 1 > Len(s) THEN Fail
    ELSE LET c == s[p + 1]
         IN StringBody(s, p + 2, delim,
                       acc \o (IF c \in {QUOTE, BSLASH, "'"} THEN <<c>>
                               ELSE IF c = "n" THEN <<NL>>
                               ELSE IF c = "t" THEN <<"\t">>
                               ELSE IF c = NL THEN <<>>
                               ELSE <<BSLASH, c>>))
  ELSE StringBody(s, p + 1, delim, acc \o <<s[p]>>)

\* The value of the digits s[p..e-1].
RECURSIVE NatOf(_, _, _)
NatOf(s, p, e) == IF e <= p THEN 0 ELSE NatOf(s, p, e - 1) * 10 + DigitVal(s[e - 1])

\* A decimal integer literal at p; a nonzero one may not start with 0.
ParseInt(s, p) ==
  LET e == MinOf({i \in p..Len(s) : ~IsDigit(s[i])} \cup {Len(s) + 1})
  IN IF e - p > 1 /\ s[p] = "0" /\ \E i \in p..(e - 1) : s[i] # "0" THEN Fail
     ELSE Ok([t |-> "int", v |-> NatOf(s, p, e)], e)

\* hash(v) is defined.
RECURSIVE Hashable(_)
Hashable(val) ==
  \/ val.t \in {"int", "str"}
  \/ val.t = "tuple" /\ \A i \in 1..Len(val.v) : Hashable(val.v[i])

\* a == b for two values.
ValEq(a, b) == a.t = b.t /\ a.v = b.v

\* d[k] = v on a dict's pairs.
DictPut(d, k, val) ==
  IF \E i \in 1..Len(d) : ValEq(d[i][1], k)
  THEN [i \in 1..Len(d) |-> IF ValEq(d[i][1], k) THEN <<d[i][1], val>> ELSE d[i]]
  ELSE Append(d, <<k, val>>)

RECURSIVE ParseExpr(_, _), ParseItems(_, _, _, _, _), ParsePairs(_, _, _)

\* Comma-separated expressions from p up to close ("EOF": the end of the
\* text, where a line break may not precede a further token).
ParseItems(s, p, close, acc, comma) ==
  LET p0 == SkipWs(s, p)
      atClose(q) == IF close = "EOF" THEN q > Len(s) ELSE q <= Len(s) /\ s[q] = close
      broken(a, b) == close = "EOF" /\ b <= Len(s) /\ \E k \in a..(b - 1) : s[k] = NL
      done(items, q) == Ok([items |-> items, comma |-> comma], q + 1)
  IN IF atClose(p0) THEN done(acc, p0)
     ELSE IF p0 > Len(s) \/ broken(p, p0) THEN Fail
     ELSE LET e == ParseExpr(s, p0)
          IN IF ~e.ok THEN Fail
             ELSE LET p1 == SkipWs(s, e.p)
                  IN IF atClose(p1) THEN done(Append(acc, e.v), p1)
                     ELSE IF p1 > Len(s) \/ broken(e.p, p1) THEN Fail
                     ELSE IF s[p1] = "," THEN ParseItems(s, p1 + 1, close, Append(acc, e.v), TRUE)
                     ELSE Fail

\* key: value pairs from p up to "}".
ParsePairs(s, p, acc) ==
  LET p0 == SkipWs(s, p)
  IN IF p0 > Len(s) THEN Fail
     ELSE IF s[p0] = "}" THEN Ok([t |-> "dict", v |-> acc], p0 + 1)
     ELSE LET k == ParseExpr(s, p0)
          IN IF ~k.ok THEN Fail
             ELSE LET p1 == SkipWs(s, k.p)
                  IN IF p1 > Len(s) \/ s[p1] # ":" THEN Fail
                     ELSE LET e == ParseExpr(s, p1 + 1)
                          IN IF ~e.ok \/ ~Hashable(k.v) THEN Fail
                             ELSE LET p2 == SkipWs(s, e.p)
                                      d == DictPut(acc, k.v, e.v)
                                  IN IF p2 > Len(s) THEN Fail
                                     ELSE IF s[p2] = "," THEN ParsePairs(s, p2 + 1, d)
                                     ELSE IF s[p2] = "}" THEN Ok([t |-> "dict", v |-> d], p2 + 1)
                                     ELSE Fail

\* A dict or set display whose "{" is just before p.
ParseBrace(s, p) ==
  LET p0 == SkipWs(s, p)
  IN IF p0 > Len(s) THEN Fail
     ELSE IF s[p0] = "}" THEN Ok([t |-> "dict", v |-> <<>>], p0 + 1)
     ELSE LET k == ParseExpr(s, p0)
          IN IF ~k.ok THEN Fail
             ELSE LET p1 == SkipWs(s, k.p)
                  IN IF p1 <= Len(s) /\ s[p1] = ":" THEN ParsePairs(s, p0, <<>>)
                     ELSE LET r == ParseItems(s, p0, "}", <<>>, FALSE)
                          IN IF r.ok /\ \A i \in 1..Len(r.v.items) : Hashable(r.v.items[i])
                             THEN Ok([t |-> "set", v |-> r.v.items], r.p)
                             ELSE Fail

\* One expression starting at the first non-blank position from p on.
ParseExpr(s, p) ==
  LET p0 == SkipWs(s, p)
  IN IF p0 > Len(s) THEN Fail
     ELSE LET c == s[p0]
          IN IF c = QUOTE \/ c = "'" THEN StringBody(s, p0 + 1, c, <<>>)
             ELSE IF IsDigit(c) THEN ParseInt(s, p0)
             ELSE IF c = "[" THEN
               LET r == ParseItems(s, p0 + 1, "]", <<>>, FALSE)
               IN IF r.ok THEN Ok([t |-> "list", v |-> r.v.items], r.p) ELSE Fail
             ELSE IF c = "(" THEN
               LET r == ParseItems(s, p0 + 1, ")", <<>>, FALSE)
               IN IF ~r.ok THEN Fail
                  ELSE IF Len(r.v.items) = 1 /\ ~r.v.comma THEN Ok(r.v.items[1], r.p)
                  ELSE Ok([t |-> "tuple", v |-> r.v.items], r.p)
             ELSE IF c = "{" THEN ParseBrace(s, p0 + 1)
             ELSE Fail

\* eval(s): [ok |-> it returned, v |-> the value].
Eval(s) ==
  LET r == ParseItems(s, 1, "EOF", <<>>, FALSE)
  IN IF ~r.ok \/ r.v.items = <<>> THEN [ok |-> FALSE, v |-> <<>>]
     ELSE IF Len(r.v.items) = 1 /\ ~r.v.comma THEN [ok |-> TRUE, v |-> r.v.items[1]]
     ELSE [ok |-> TRUE, v |-> [t |-> "tuple", v |-> r.v.items]]

\* The loop with the first fragment that fails ending it (a break in the
\* except clause).
RECURSIVE ParseFrom_StopAtError(_, _, _, _)
ParseFrom_StopAtError(question_strings, i, qs, out) ==
  IF i > Len(question_strings) THEN [questions |-> qs, out |-> out]
  ELSE LET q_str == Repair(question_strings[i])
           r == Eval(q_str)
       IN IF r.ok
          THEN ParseFrom_StopAtError(question_strings, i + 1, Append(qs, r.v), out)
          ELSE [questions |-> qs,
                out |-> out \o <<[msg |-> "Error parsing question", n |-> i, text |-> <<>>],
                                 [msg |-> "String", n |-> i, text |-> Take(q_str, PreviewLen)]>>]

\* The loop of lines 27-42 from fragment i on: the questions that evaluated,
\* in order, and what was printed for those that did not.
RECURSIVE ParseFrom(_, _, _, _)
ParseFrom(question_strings, i, qs, out) ==
  IF i > Len(question_strings) THEN [questions |-> qs, out |-> out]
  ELSE LET q_str == Repair(question_strings[i])
           r == Eval(q_str)
       IN IF r.ok
          THEN ParseFrom(question_strings, i + 1, Append(qs, r.v), out)
          ELSE ParseFrom(question_strings, i + 1, qs,
                         out \o <<[msg |-> "Error parsing question", n |-> i, text |-> <<>>],
                                  [msg |-> "String", n |-> i, text |-> Take(q_str, PreviewLen)]>>)

\* ------------------------------------------------------------ the re-emitter

\* repr(s) of a str: single quotes unless s holds one and no double quote.
ReprStr(t) ==
  LET dq == (\E i \in 1..Len(t) : t[i] = "'") /\ ~(\E i \in 1..Len(t) : t[i] = QUOTE)
      d == IF dq THEN QUOTE ELSE "'"
      esc(c) == IF c = BSLASH THEN <<BSLASH, BSLASH>>
                ELSE IF c = NL THEN <<BSLASH, "n">>
                ELSE IF c = "\t" THEN <<BSLASH, "t">>
                ELSE IF c = d THEN <<BSLASH, c>>
                ELSE <<c>>
  IN <<d>> \o ConcatRange([i \in 1..Len(t) |-> esc(t[i])], 1, Len(t)) \o <<d>>

\* repr(v)
RECURSIVE Repr(_)
Repr(val) ==
  LET items == [i \in 1..Len(val.v) |-> Repr(val.v[i])]
      pairs == [i \in 1..Len(val.v) |-> Repr(val.v[i][1]) \o <<":", " ">> \o Repr(val.v[i][2])]
  IN CASE val.t = "int" -> Decimal(val.v)
       [] val.t = "str" -> ReprStr(val.v)
       [] val.t = "list" -> <<"[">> \o Join(items, <<",", " ">>) \o <<"]">>
       [] val.t = "tuple" ->
            <<"(">> \o Join(items, <<",", " ">>)
                    \o (IF Len(val.v) = 1 THEN <<",", ")">> ELSE <<")">>)
       [] val.t = "set" ->
            IF Len(val.v) = 0 THEN <<"s", "e", "t", "(", ")">>
            ELSE <<"{">> \o Join(items, <<",", " ">>) \o <<"}">>
       [] val.t = "dict" -> <<"{">> \o Join(pairs, <<",", " ">>) \o <<"}">>

\* str(v)
PyStr(val) == IF val.t = "str" THEN val.v ELSE Repr(val)

\* The body of a JSON string (json.dumps, ensure_ascii).
JsonStr(t) ==
  LET esc(c) == IF c = QUOTE THEN <<BSLASH, QUOTE>>
                ELSE IF c = BSLASH THEN <<BSLASH, BSLASH>>
                ELSE IF c = NL THEN <<BSLASH, "n">>
                ELSE IF c = "\t" THEN <<BSLASH, "t">>
                ELSE <<c>>
  IN <<QUOTE>> \o ConcatRange([i \in 1..Len(t) |-> esc(t[i])], 1, Len(t)) \o <<QUOTE>>

\* json.dumps(v) returns (a set, or a dict key that is no str or int, raises).
RECURSIVE Dumpable(_)
Dumpable(val) ==
  CASE val.t \in {"int", "str"} -> TRUE
    [] val.t \in {"list", "tuple"} -> \A i \in 1..Len(val.v) : Dumpable(val.v[i])
    [] val.t = "dict" ->
         \A i \in 1..Len(val.v) : val.v[i][1].t \in {"int", "str"} /\ Dumpable(val.v[i][2])
    [] OTHER -> FALSE

\* json.dumps(v)
RECURSIVE JsonDumps(_)
JsonDumps(val) ==
  LET items == [i \in 1..Len(val.v) |-> JsonDumps(val.v[i])]
      key(k) == IF k.t = "str" THEN JsonStr(k.v) ELSE JsonStr(Decimal(k.v))
      pairs == [i \in 1..Len(val.v) |-> key(val.v[i][1]) \o <<":", " ">> \o JsonDumps(val.v[i][2])]
  IN CASE val.t = "int" -> Decimal(val.v)
       [] val.t = "str" -> JsonStr(val.v)
       [] val.t \in {"list", "tuple"} -> <<"[">> \o Join(items, <<",", " ">>) \o <<"]">>
       [] val.t = "dict" -> <<"{">> \o Join(pairs, <<",", " ">>) \o <<"}">>

\* s.replace('"', '\\"', 1): the first double quote only.
EscapeQuotes_FirstOnly(t) ==
  LET first == MinOf({i \in 1..Len(t) : t[i] = QUOTE} \cup {Len(t) + 1})
  IN ConcatRange([i \in 1..Len(t) |-> IF i = first THEN <<BSLASH, QUOTE>> ELSE <<t[i]>>],
                 1, Len(t))

\* s.replace('"', '\\"')
EscapeQuotes(t) ==
  ConcatRange([i \in 1..Len(t) |-> IF t[i] = QUOTE THEN <<BSLASH, QUOTE>> ELSE <<t[i]>>],
              1, Len(t))

\* The str key of a dict.
Key(name) == [t |-> "str", v |-> name]
HasKey(q, name) == q.t = "dict" /\ \E i \in 1..Len(q.v) : ValEq(q.v[i][1], Key(name))
\* q[name]
Get(q, name) == q.v[CHOOSE i \in 1..Len(q.v) : ValEq(q.v[i][1], Key(name))][2]

K_cat == <<"c", "a", "t">>
K_q == <<"q">>
K_options == <<"o", "p", "t", "i", "o", "n", "s">>
K_answer == <<"a", "n", "s", "w", "e", "r">>
K_explain == <<"e", "x", "p", "l", "a", "i", "n">>

\* Line 50
AnswerStr(answer) == IF answer.t = "list" THEN JsonDumps(answer) ELSE PyStr(answer)

\* Line 58, the f-string.
JsLine(cat, question_text, options, answer_str, explain_text) ==
  <<" ", " ", " ", " ", " ", " ", "{", " ", "c", "a", "t", ":", " ", "\"">> \o cat
  \o <<"\"", ",", " ", "q", ":", " ", "\"">> \o question_text
  \o <<"\"", ",", " ", "o", "p", "t", "i", "o", "n", "s", ":", " ">> \o options
  \o <<",", " ", "a", "n", "s", "w", "e", "r", ":", " ">> \o answer_str
  \o <<",", " ", "e", "x", "p", "l", "a", "i", "n", ":", " ", "\"">> \o explain_text
  \o <<"\"", " ", "}">>

\* Lines 50-56 raise on q: a subscript of something that is no dict, a missing
\* key, .replace on something that is no str, json.dumps of a set.
Raises(q) ==
  \/ q.t # "dict"
  \/ ~HasKey(q, K_answer)
  \/ Get(q, K_answer).t = "list" /\ ~Dumpable(Get(q, K_answer))
  \/ \E k \in {K_cat, K_q, K_explain} : ~HasKey(q, k) \/ Get(q, k).t # "str"
  \/ ~HasKey(q, K_options)
  \/ ~Dumpable(Get(q, K_options))

\* One iteration of the loop of lines 48-59: its local variables.
ConvertOne(q) ==
  LET answer_str == AnswerStr(Get(q, K_answer))
      cat == EscapeQuotes(Get(q, K_cat).v)
      question_text == EscapeQuotes(Get(q, K_q).v)
      explain_text == EscapeQuotes(Get(q, K_explain).v)
      options == JsonDumps(Get(q, K_options))
  IN [answer_str |-> answer_str, cat |-> cat, question_text |-> question_text,
      explain_text |-> explain_text, options |-> options,
      js_q |-> JsLine(cat, question_text, options, answer_str, explain_text)]

\* The loop of lines 48-59 from question i on, up to the first that raises.
RECURSIVE ConvertFrom(_, _, _)
ConvertFrom(qs, i, acc) ==
  IF i > Len(qs) THEN [ok |-> TRUE, locals |-> acc]
  ELSE IF Raises(qs[i]) THEN [ok |-> FALSE, locals |-> acc]
  ELSE ConvertFrom(qs, i + 1, Append(acc, ConvertOne(qs[i])))

\* --------------------------------------------------------------- the splicer

\* The lines of t[lo..hi], each with its line break, by halving.
RECURSIVE SplitLines(_, _, _)
SplitLines(t, lo, hi) ==
  IF lo > hi THEN <<>>
  ELSE IF lo = hi THEN <<<<t[lo]>>>>
  ELSE LET mid == (lo + hi) \div 2
           L == SplitLines(t, lo, mid)
           R == SplitLines(t, mid + 1, hi)
       IN IF t[mid] = NL THEN L \o R
          ELSE SubSeq(L, 1, Len(L) - 1) \o <<L[Len(L)] \o R[1]>> \o Tail(R)

\* f.readlines()
ReadLines(t) == SplitLines(t, 1, Len(t))

\* f.writelines(lines)
WriteLines(lines) == ConcatRange(lines, 1, Len(lines))

\* The insertion guarded: nothing is inserted when x is a line already.
InsertAt_IfAbsent(lines, i, x) ==
  IF \E k \in 1..Len(lines) : lines[k] = x THEN lines
  ELSE Take(lines, i) \o <<x>> \o Drop(lines, i)

\* lines[i] = x in place of the insertion: the line at i is overwritten.
InsertAt_Overwrite(lines, i, x) == Take(lines, i) \o <<x>> \o Drop(lines, i + 1)

\* lines.insert(i, x), i >= 0
InsertAt(lines, i, x) == Take(lines, i) \o <<x>> \o Drop(lines, i)

\* Line 69 without the trailing ',\n'.
NewQuestionsText_NoTail(js) == Join(js, <<",", NL>>)

\* Line 69 guarded: nothing to insert when there is no question.
NewQuestionsText_SkipEmpty(js) ==
  IF js = <<>> THEN <<>> ELSE Join(js, <<",", NL>>) \o <<",", NL>>

\* Line 69
NewQuestionsText(js) == Join(js, <<",", NL>>) \o <<",", NL>>

\* ---------------------------------------------------------------- the files

\* The record fragments of the generated documents, as written in
\* add_questions.py; the last one does not evaluate.
\* {"cat": "A", "q": "Q1?", "options": ["x", "y"], "answer": 0, "explain": "E1"}
Frag1 ==
  <<"{", "\"", "c", "a", "t", "\"", ":", " ", "\"", "A", "\"", ",", " ", "\"", "q", "\"", ":", " ", "\"", "Q", "1", "?", "\"", ",", " ", "\"", "o", "p", "t", "i", "o", "n", "s", "\"", ":", " ", "[", "\"", "x", "\"", ",", " ", "\"", "y", "\"", "]", ",", " ", "\"", "a", "n", "s", "w", "e", "r", "\"", ":", " ", "0", ",", " ", "\"", "e", "x", "p", "l", "a", "i", "n", "\"", ":", " ", "\"", "E", "1", "\"", "}">>
\* {"cat": "B", "q": "Q2?", "options": ["m", "n"], "answer": [0, 1], "explain": "E2"}
Frag2 ==
  <<"{", "\"", "c", "a", "t", "\"", ":", " ", "\"", "B", "\"", ",", " ", "\"", "q", "\"", ":", " ", "\"", "Q", "2", "?", "\"", ",", " ", "\"", "o", "p", "t", "i", "o", "n", "s", "\"", ":", " ", "[", "\"", "m", "\"", ",", " ", "\"", "n", "\"", "]", ",", " ", "\"", "a", "n", "s", "w", "e", "r", "\"", ":", " ", "[", "0", ",", " ", "1", "]", ",", " ", "\"", "e", "x", "p", "l", "a", "i", "n", "\"", ":", " ", "\"", "E", "2", "\"", "}">>
\* {"cat": "C\"", "q": "\\\"", "options": ["a\"b"], "answer": (0, 12), "explain": "u\n\"\""}
Frag3 ==
  <<"{", "\"", "c", "a", "t", "\"", ":", " ", "\"", "C", "\\", "\"", "\"", ",", " ", "\"", "q", "\"", ":", " ", "\"", "\\", "\\", "\\", "\"", "\"", ",", " ", "\"", "o", "p", "t", "i", "o", "n", "s", "\"", ":", " ", "[", "\"", "a", "\\", "\"", "b", "\"", "]", ",", " ", "\"", "a", "n", "s", "w", "e", "r", "\"", ":", " ", "(", "0", ",", " ", "1", "2", ")", ",", " ", "\"", "e", "x", "p", "l", "a", "i", "n", "\"", ":", " ", "\"", "u", "\\", "n", "\\", "\"", "\\", "\"", "\"", "}">>
\* {"cat": "X", "q": }
Frag4 ==
  <<"{", "\"", "c", "a", "t", "\"", ":", " ", "\"", "X", "\"", ",", " ", "\"", "q", "\"", ":", " ", "}">>
FragText == <<Frag1, Frag2, Frag3, Frag4>>
\* What Python evaluates fragment 1 to.
Value1 ==
  [t |-> "dict", v |->
      <<<<[t |-> "str", v |-> <<"c", "a", "t">>], [t |-> "str", v |-> <<"A">>]>>,
        <<[t |-> "str", v |-> <<"q">>], [t |-> "str", v |-> <<"Q", "1", "?">>]>>,
        <<[t |-> "str", v |-> <<"o", "p", "t", "i", "o", "n", "s">>], [t |-> "list", v |-> <<[t |-> "str", v |-> <<"x">>], [t |-> "str", v |-> <<"y">>]>>]>>,
        <<[t |-> "str", v |-> <<"a", "n", "s", "w", "e", "r">>], [t |-> "int", v |-> 0]>>,
        <<[t |-> "str", v |-> <<"e", "x", "p", "l", "a", "i", "n">>], [t |-> "str", v |-> <<"E", "1">>]>>>>]
\* What Python evaluates fragment 2 to.
Value2 ==
  [t |-> "dict", v |->
      <<<<[t |-> "str", v |-> <<"c", "a", "t">>], [t |-> "str", v |-> <<"B">>]>>,
        <<[t |-> "str", v |-> <<"q">>], [t |-> "str", v |-> <<"Q", "2", "?">>]>>,
        <<[t |-> "str", v |-> <<"o", "p", "t", "i", "o", "n", "s">>], [t |-> "list", v |-> <<[t |-> "str", v |-> <<"m">>], [t |-> "str", v |-> <<"n">>]>>]>>,
        <<[t |-> "str", v |-> <<"a", "n", "s", "w", "e", "r">>], [t |-> "list", v |-> <<[t |-> "int", v |-> 0], [t |-> "int", v |-> 1]>>]>>,
        <<[t |-> "str", v |-> <<"e", "x", "p", "l", "a", "i", "n">>], [t |-> "str", v |-> <<"E", "2">>]>>>>]
\* What Python evaluates fragment 3 to.
Value3 ==
  [t |-> "dict", v |->
      <<<<[t |-> "str", v |-> <<"c", "a", "t">>], [t |-> "str", v |-> <<"C", "\"">>]>>,
        <<[t |-> "str", v |-> <<"q">>], [t |-> "str", v |-> <<"\\", "\"">>]>>,
        <<[t |-> "str", v |-> <<"o", "p", "t", "i", "o", "n", "s">>], [t |-> "list", v |-> <<[t |-> "str", v |-> <<"a", "\"", "b">>]>>]>>,
        <<[t |-> "str", v |-> <<"a", "n", "s", "w", "e", "r">>], [t |-> "tuple", v |-> <<[t |-> "int", v |-> 0], [t |-> "int", v |-> 12]>>]>>,
        <<[t |-> "str", v |-> <<"e", "x", "p", "l", "a", "i", "n">>], [t |-> "str", v |-> <<"u", "\n", "\"", "\"">>]>>>>]
NFrags == Len(FragText)

\* The sequences of at most n fragment numbers.
RECURSIVE FragSeqs(_)
FragSeqs(n) ==
  IF n = 0 THEN {<<>>}
  ELSE LET shorter == FragSeqs(n - 1)
       IN shorter \cup {Append(fs, f) : fs \in {x \in shorter : Len(x) = n - 1}, f \in 1..NFrags}

Indent == <<" ", " ", " ", " ">>

\* add_questions.py holding the fragments fs, one per line, the last followed
\* by a comma when tc.
ArrayDoc(fs, tc) ==
  <<"#", NL>> \o ArrayOpen
  \o (IF fs = <<>> THEN <<>>
      ELSE <<NL>> \o Indent
           \o Join([i \in 1..Len(fs) |-> FragText[fs[i]]], <<",", NL>> \o Indent)
           \o (IF tc THEN <<",">> ELSE <<>>))
  \o <<NL, "]", NL>>

ArrayDocs ==
  {ArrayDoc(fs, tc) : fs \in FragSeqs(MaxFrags), tc \in BOOLEAN} \ {ArrayDoc(<<>>, TRUE)}

\* Documents without the array: another name; the bracket closed on the line
\* of the record.
NoArrayDocs ==
  { <<"t", "e", "s", "t", "4", " ", "=", " ", "[", NL>> \o Indent \o Frag1 \o <<NL, "]", NL>>,
    ArrayOpen \o Frag1 \o <<"]", NL>> }

\* Documents whose array body holds a line that starts with "]" and goes on,
\* or an indented "]", before the line that is "]" alone; and one with another
\* array before test5_questions.
OddDocs ==
  { ArrayOpen \o <<NL>> \o Indent \o Frag1 \o <<NL, "]", ",", NL, "]", NL>>,
    ArrayOpen \o <<NL>> \o Indent \o Frag1 \o <<NL, " ", "]", NL, "]", NL>>,
    <<"t", "e", "s", "t", "4", " ", "=", " ", "[", NL>> \o Frag2 \o <<NL, "]", NL>>
      \o ArrayOpen \o <<NL>> \o Frag1 \o <<NL, "]">> }

\* Line i (from 0) of a generated awsprepai-multicert.html: "];" at
\* insert_line, else one letter.
DestLine(i) ==
  IF i = insert_line THEN <<"]", ";">>
  ELSE <<(<<"a", "b", "c">>)[(i % 3) + 1]>>

\* awsprepai-multicert.html of n lines, the last one ending in a line break
\* when term.
DestFile(n, term) ==
  LET lines == [k \in 1..n |-> DestLine(k - 1) \o (IF k < n \/ term THEN <<NL>> ELSE <<>>)]
  IN ConcatRange(lines, 1, n)

ShortDests == {DestFile(n, term) : n \in 0..(MaxExtra + 1), term \in BOOLEAN}
LongDests ==
  {DestFile(n, term) : n \in (insert_line - 1)..(insert_line + 1 + MaxExtra), term \in BOOLEAN}

\* The documents run against every destination file.
FewDocs ==
  { ArrayDoc(<<1, 2>>, FALSE), ArrayDoc(<<NFrags>>, FALSE), ArrayDoc(<<3>>, FALSE),
    ArrayDoc(<<>>, FALSE), ArrayOpen \o Frag1 \o <<"]", NL>> }

\* The documents run against one short destination file.
ManyDocs == ArrayDocs \cup NoArrayDocs \cup OddDocs

\* -------------------------------------------------------- the state machine

VARIABLES
  src,                \* add_questions.py on disk
  dest,               \* awsprepai-multicert.html on disk
  pc,                 \* where the run is
  content,            \* line 10
  array_content,      \* line 19
  question_strings,   \* line 25
  questions,          \* line 23
  locals,             \* lines 50-58, the local variables of each iteration
  js_questions,       \* line 47
  html_lines,         \* line 63
  new_questions_text, \* line 69
  stdout,             \* what the run printed
  exit_code,          \* the exit status, -1 while running
  runs,               \* the number of this run
  before              \* the two files as each run found them

vars == <<src, dest, pc, content, array_content, question_strings, questions, locals,
          js_questions, html_lines, new_questions_text, stdout, exit_code, runs, before>>

Say(msg, n) == [msg |-> msg, n |-> n, text |-> <<>>]

\* A fresh process: nothing read, nothing parsed.
Start ==
  /\ pc = "read_source"
  /\ content = <<>>
  /\ array_content = <<>>
  /\ question_strings = <<>>
  /\ questions = <<>>
  /\ locals = <<>>
  /\ js_questions = <<>>
  /\ html_lines = <<>>
  /\ new_questions_text = <<>>
  /\ stdout = <<>>
  /\ exit_code = -1

Init ==
  /\ \/ src \in ManyDocs /\ dest = DestFile(2, TRUE)
     \/ src \in FewDocs /\ dest \in ShortDests \cup LongDests
  /\ Start
  /\ runs = 1
  /\ before = <<[src |-> src, dest |-> dest]>>

\* Lines 9-10
ReadSource ==
  /\ pc = "read_source"
  /\ content' = src
  /\ pc' = "extract"
  /\ UNCHANGED <<src, dest, array_content, question_strings, questions, locals, js_questions,
                 html_lines, new_questions_text, stdout, exit_code, runs, before>>

\* Lines 14-19
Extract ==
  /\ pc = "extract"
  /\ LET match == ReSearch(content)
     IN IF ~match.found
        THEN /\ stdout' = Append(stdout, Say("Could not find test5_questions array", 0))
             /\ exit_code' = 1
             /\ pc' = "exited"
             /\ UNCHANGED array_content
        ELSE /\ array_content' = match.group
             /\ pc' = "parse"
             /\ UNCHANGED <<stdout, exit_code>>
  /\ UNCHANGED <<src, dest, content, question_strings, questions, locals, js_questions,
                 html_lines, new_questions_text, runs, before>>

\* Lines 23-44
ParseQuestions ==
  /\ pc = "parse"
  /\ LET split == ReSplit(Strip(array_content))
         r == ParseFrom(split, 1, <<>>, <<>>)
     IN /\ question_strings' = split
        /\ questions' = r.questions
        /\ stdout' = stdout \o r.out \o <<Say("Parsed questions from Test #5", Len(r.questions))>>
  /\ pc' = "convert"
  /\ UNCHANGED <<src, dest, content, array_content, locals, js_questions, html_lines,
                 new_questions_text, exit_code, runs, before>>

\* Lines 47-59; an exception in the loop ends the run.
ConvertToJs ==
  /\ pc = "convert"
  /\ LET r == ConvertFrom(questions, 1, <<>>)
     IN /\ locals' = r.locals
        /\ js_questions' = [i \in 1..Len(r.locals) |-> r.locals[i].js_q]
        /\ IF r.ok
           THEN pc' = "read_html" /\ UNCHANGED exit_code
           ELSE pc' = "crashed" /\ exit_code' = 1
  /\ UNCHANGED <<src, dest, content, array_content, question_strings, questions, html_lines,
                 new_questions_text, stdout, runs, before>>

\* Lines 62-63
ReadHtml ==
  /\ pc = "read_html"
  /\ html_lines' = ReadLines(dest)
  /\ pc' = "insert"
  /\ UNCHANGED <<src, dest, content, array_content, question_strings, questions, locals,
                 js_questions, new_questions_text, stdout, exit_code, runs, before>>

\* Lines 66-70
InsertQuestions ==
  /\ pc = "insert"
  /\ new_questions_text' = NewQuestionsText(js_questions)
  /\ html_lines' = InsertAt(html_lines, insert_line, new_questions_text')
  /\ pc' = "write"
  /\ UNCHANGED <<src, dest, content, array_content, question_strings, questions, locals,
                 js_questions, stdout, exit_code, runs, before>>

\* Lines 73-77
WriteBack ==
  /\ pc = "write"
  /\ dest' = WriteLines(html_lines)
  /\ stdout' = stdout \o <<Say("Successfully added questions from Test #5", Len(questions)),
                           Say("New total SAA questions", PriorTotal + Len(questions))>>
  /\ exit_code' = 0
  /\ pc' = "done"
  /\ UNCHANGED <<src, content, array_content, question_strings, questions, locals,
                 js_questions, html_lines, new_questions_text, runs, before>>

\* The script is invoked again on the files as the last run left them.
RunAgain ==
  /\ pc \in {"done", "exited", "crashed"}
  /\ runs < MaxRuns
  /\ runs' = runs + 1
  /\ before' = Append(before, [src |-> src, dest |-> dest])
  /\ pc' = "read_source"
  /\ content' = <<>>
  /\ array_content' = <<>>
  /\ question_strings' = <<>>
  /\ questions' = <<>>
  /\ locals' = <<>>
  /\ js_questions' = <<>>
  /\ html_lines' = <<>>
  /\ new_questions_text' = <<>>
  /\ stdout' = <<>>
  /\ exit_code' = -1
  /\ UNCHANGED <<src, dest>>

Next ==
  \/ ReadSource
  \/ Extract
  \/ ParseQuestions
  \/ ConvertToJs
  \/ ReadHtml
  \/ InsertQuestions
  \/ WriteBack
  \/ RunAgain

Spec == Init /\ [][Next]_vars

\* ------------------------------------------------------------------ claims

FragValid == <<TRUE, TRUE, TRUE, FALSE>>
FragValue == <<Value1, Value2, Value3>>
\* The line insert_test5.py writes for fragment 1 (without the "," and line break).
JsText1 ==
  <<" ", " ", " ", " ", " ", " ", "{", " ", "c", "a", "t", ":", " ", "\"", "A", "\"", ",", " ", "q", ":", " ", "\"", "Q", "1", "?", "\"", ",", " ", "o", "p", "t", "i", "o", "n", "s", ":", " ", "[", "\"", "x", "\"", ",", " ", "\"", "y", "\"", "]", ",", " ", "a", "n", "s", "w", "e", "r", ":", " ", "0", ",", " ", "e", "x", "p", "l", "a", "i", "n", ":", " ", "\"", "E", "1", "\"", " ", "}">>
\* The line insert_test5.py writes for fragment 2 (without the "," and line break).
JsText2 ==
  <<" ", " ", " ", " ", " ", " ", "{", " ", "c", "a", "t", ":", " ", "\"", "B", "\"", ",", " ", "q", ":", " ", "\"", "Q", "2", "?", "\"", ",", " ", "o", "p", "t", "i", "o", "n", "s", ":", " ", "[", "\"", "m", "\"", ",", " ", "\"", "n", "\"", "]", ",", " ", "a", "n", "s", "w", "e", "r", ":", " ", "[", "0", ",", " ", "1", "]", ",", " ", "e", "x", "p", "l", "a", "i", "n", ":", " ", "\"", "E", "2", "\"", " ", "}">>
\* The line insert_test5.py writes for fragment 3 (without the "," and line break).
JsText3 ==
  <<" ", " ", " ", " ", " ", " ", "{", " ", "c", "a", "t", ":", " ", "\"", "C", "\\", "\"", "\"", ",", " ", "q", ":", " ", "\"", "\\", "\\", "\"", "\"", ",", " ", "o", "p", "t", "i", "o", "n", "s", ":", " ", "[", "\"", "a", "\\", "\"", "b", "\"", "]", ",", " ", "a", "n", "s", "w", "e", "r", ":", " ", "(", "0", ",", " ", "1", "2", ")", ",", " ", "e", "x", "p", "l", "a", "i", "n", ":", " ", "\"", "u", "\n", "\\", "\"", "\\", "\"", "\"", " ", "}">>
JsText == <<JsText1, JsText2, JsText3>>

\* The generated array documents with the fragments each was built from.
DocTable ==
  {[doc |-> ArrayDoc(fs, tc), fs |-> fs, tc |-> tc] : fs \in FragSeqs(MaxFrags), tc \in BOOLEAN}
    \ {[doc |-> ArrayDoc(<<>>, TRUE), fs |-> <<>>, tc |-> TRUE]}

\* awsprepai-multicert.html as the current run found it.
DestBefore == before[runs].dest

Count(t, c) == Cardinality({i \in 1..Len(t) : t[i] = c})
\* The number of lines of a file.
LineCount(t) == Count(t, NL) + (IF t # <<>> /\ t[Len(t)] # NL THEN 1 ELSE 0)
Contains(t, pat) == \E i \in 1..(Len(t) - Len(pat) + 1) : MatchAt(t, i, pat)
Occurrences(t, pat) == Cardinality({i \in 1..(Len(t) - Len(pat) + 1) : MatchAt(t, i, pat)})

\* The run is past the stage.
Extracted == pc \in {"parse", "convert", "read_html", "insert", "write", "done", "crashed"}
Parsed == pc \in {"convert", "read_html", "insert", "write", "done", "crashed"}
Converted == pc \in {"read_html", "insert", "write", "done"}

\* The inserted text starts on a line of its own: the file is empty, ends with
\* a line break, or has lines beyond insert_line.
FreshLine(t) == t = <<>> \/ t[Len(t)] = NL \/ LineCount(t) > insert_line

\* 'test5_questions = [' and, somewhere after it, a line break followed by ']'.
HasArrayPattern(t) ==
  \E i \in 1..Len(t) :
    /\ MatchAt(t, i, ArrayOpen)
    /\ \E j \in (i + Len(ArrayOpen))..Len(t) : MatchAt(t, j, ArrayClose)

\* C1: when the source document does not hold the array pattern, the run
\* prints the diagnostic and ends at once with status 1: the destination file
\* is never read or written and keeps its content, and nothing is parsed or
\* serialized.
C1_NoArrayAborts ==
  ~HasArrayPattern(src) =>
    /\ pc \in {"read_source", "extract", "exited"}
    /\ dest = DestBefore
    /\ html_lines = <<>>
    /\ question_strings = <<>> /\ questions = <<>>
    /\ locals = <<>> /\ js_questions = <<>> /\ new_questions_text = <<>>
    /\ pc = "exited" =>
         /\ exit_code = 1
         /\ stdout = <<Say("Could not find test5_questions array", 0)>>

C1_Witness ==
  /\ pc = "exited"
  /\ ~HasArrayPattern(src)
  /\ Contains(src, ArrayOpen)
  /\ LineCount(dest) > insert_line

\* Fragment i of a generated document evaluates: it is one of the valid ones
\* and is not a last fragment followed by a comma (line 33 repairs that one to
\* '{...},}', which Python rejects).
Evaluates(row, i) == FragValid[row.fs[i]] /\ ~(row.tc /\ i = Len(row.fs))
Evaluating(row) == SortedSeq({i \in 1..Len(row.fs) : Evaluates(row, i)})
Failing(row) == SortedSeq({i \in 1..Len(row.fs) : ~Evaluates(row, i)})
Mixed(row) == Evaluating(row) # <<>> /\ Failing(row) # <<>>

IsParseError(m) == m.msg = "Error parsing question"

\* The text of line 69 for the given lines.
Block(js) == ConcatRange([i \in 1..Len(js) |-> js[i] \o <<",", NL>>], 1, Len(js))

\* The file t with the text x put before its line number i (from 0), or after
\* its last line when it has no such line.
Spliced(t, i, x) ==
  LET L == ReadLines(t)
  IN WriteLines(Take(L, i)) \o x \o WriteLines(Drop(L, i))

C3_AllWellFormedParsed ==
  \A row \in DocTable :
    (row.doc = src /\ Parsed /\ \A i \in 1..Len(row.fs) : FragValid[row.fs[i]]) =>
      questions = [i \in 1..Len(row.fs) |-> FragValue[row.fs[i]]]

\* The same without the two cases that fail: no fragment at all, and a comma
\* after the last fragment.
C3_NonEmptyNoTrailingComma ==
  \A row \in DocTable :
    (/\ row.doc = src /\ Parsed /\ \A i \in 1..Len(row.fs) : FragValid[row.fs[i]]
     /\ row.fs # <<>> /\ ~row.tc) =>
      questions = [i \in 1..Len(row.fs) |-> FragValue[row.fs[i]]]

\* The cat, q and explain of a record, and its answer when that is a str,
\* hold no line break.
OnOneLine(q) ==
  \A k \in {K_cat, K_q, K_explain, K_answer} :
    (HasKey(q, k) /\ Get(q, k).t = "str") => Count(Get(q, k).v, NL) = 0

Answer0 == <<"a", "n", "s", "w", "e", "r", ":", " ", "0", ",">>
Answer01 == <<"a", "n", "s", "w", "e", "r", ":", " ", "[", "0", ",", " ", "1", "]", ",">>

\* The spec's end-to-end document: a record with answer 0, then one with
\* answer [0, 1].
ScenarioDoc == ArrayDoc(<<1, 2>>, FALSE)

\* The number of the first inserted line in the written file.
InsertedAt == Least(insert_line, LineCount(DestBefore))

\* C4, as claimed: the two-record document yields two lines in the
\* destination, the first with 'answer: 0' and the second with
\* 'answer: [0, 1]', and two more lines; a run that parses N records whose text
\* fields hold no line break leaves the destination with N more lines.
C4_GrowsByN ==
  pc = "done" =>
    /\ (\A i \in 1..Len(questions) : OnOneLine(questions[i])) =>
         LineCount(dest) = LineCount(DestBefore) + Len(questions)
    /\ src = ScenarioDoc =>
         /\ Len(js_questions) = 2
         /\ LineCount(dest) = LineCount(DestBefore) + 2
         /\ LET L == ReadLines(dest)
            IN /\ Contains(L[InsertedAt + 1], Answer0)
               /\ Contains(L[InsertedAt + 2], Answer01)

\* C4, amended: the same for N >= 1 and a destination in which the inserted
\* text starts on a line of its own.
C4_GrowsByN_FreshLine ==
  (pc = "done" /\ FreshLine(DestBefore)) =>
    /\ (/\ Len(questions) >= 1
        /\ \A i \in 1..Len(questions) : OnOneLine(questions[i])) =>
         LineCount(dest) = LineCount(DestBefore) + Len(questions)
    /\ src = ScenarioDoc =>
         /\ Len(js_questions) = 2
         /\ LineCount(dest) = LineCount(DestBefore) + 2
         /\ LET L == ReadLines(dest)
            IN /\ Contains(L[InsertedAt + 1], Answer0)
               /\ ~Contains(L[InsertedAt + 1], Answer01)
               /\ Contains(L[InsertedAt + 2], Answer01)
               /\ ~Contains(L[InsertedAt + 2], Answer0)

C4_Witness ==
  /\ pc = "done"
  /\ src = ScenarioDoc
  /\ LineCount(DestBefore) > insert_line
  /\ LineCount(dest) = LineCount(DestBefore) + 2

\* C5, as claimed: for every destination, the written file is its lines
\* 0..772 unchanged, then the lines of the inserted block, then its lines from
\* 773 on unchanged and in order.
C5_LinesKept ==
  pc = "done" =>
    LET L == ReadLines(DestBefore)
    IN ReadLines(dest)
         = Take(L, insert_line) \o ReadLines(new_questions_text) \o Drop(L, insert_line)

\* C5, amended: the same for a destination in which the inserted text starts
\* on a line of its own (one with fewer than 773 lines gets the block after
\* its last line).
C5_LinesKept_FreshLine ==
  (pc = "done" /\ FreshLine(DestBefore)) =>
    LET L == ReadLines(DestBefore)
    IN ReadLines(dest)
         = Take(L, insert_line) \o ReadLines(new_questions_text) \o Drop(L, insert_line)

C5_Witness ==
  /\ pc = "done"
  /\ LineCount(DestBefore) > insert_line + 1
  /\ DestBefore[Len(DestBefore)] # NL
  /\ Len(js_questions) = 2
  /\ ReadLines(dest)[insert_line + 3] = <<"]", ";", NL>>

\* C10, as claimed: a run that finds the array and parses no record still
\* writes the destination, with one new line that is a comma alone, at index
\* 773, so that the file has one more line; it ends with status 0 and reports
\* 0 questions added.
C10_CommaLineAdded ==
  (Parsed /\ questions = <<>>) =>
    /\ pc # "crashed"
    /\ pc = "done" =>
         /\ exit_code = 0
         /\ SubSeq(stdout, Len(stdout) - 1, Len(stdout))
              = <<Say("Successfully added questions from Test #5", 0),
                  Say("New total SAA questions", PriorTotal)>>
         /\ LineCount(dest) = LineCount(DestBefore) + 1
         /\ ReadLines(dest)[InsertedAt + 1] = <<",", NL>>
         /\ dest = Spliced(DestBefore, insert_line, <<",", NL>>)

\* C10, amended: so it is when the inserted text starts on a line of its own
\* (at the end of a file of fewer than 773 lines); in a file of at most 773
\* lines whose last line has no line break, the comma and the line break are
\* appended to that last line and the number of lines stays.
C10_CommaAdded ==
  (Parsed /\ questions = <<>>) =>
    /\ pc # "crashed"
    /\ pc = "done" =>
         /\ exit_code = 0
         /\ SubSeq(stdout, Len(stdout) - 1, Len(stdout))
              = <<Say("Successfully added questions from Test #5", 0),
                  Say("New total SAA questions", PriorTotal)>>
         /\ dest = Spliced(DestBefore, insert_line, <<",", NL>>)
         /\ IF FreshLine(DestBefore)
            THEN /\ LineCount(dest) = LineCount(DestBefore) + 1
                 /\ ReadLines(dest)[InsertedAt + 1] = <<",", NL>>
            ELSE /\ LineCount(dest) = LineCount(DestBefore)
                 /\ dest = DestBefore \o <<",", NL>>

C10_Witness ==
  /\ pc = "done"
  /\ questions = <<>>
  /\ LineCount(DestBefore) > insert_line
  /\ ReadLines(dest)[insert_line + 1] = <<",", NL>>
  /\ ReadLines(dest)[insert_line + 2] = <<"]", ";", NL>>

\* How often the line js[i] stands in the block of the lines js.
Copies(js, i) == Cardinality({j \in 1..Len(js) : js[j] = js[i]})

\* The run wrote the destination of an earlier run again, the source being
\* what it was: the same block went in at index 773 both times and the file
\* grew by the same amount each time.
InsertedAgain ==
  LET earlier == before[runs - 1].dest
  IN /\ js_questions # <<>> => new_questions_text = Block(js_questions)
     /\ DestBefore = Spliced(earlier, insert_line, new_questions_text)
     /\ dest = Spliced(DestBefore, insert_line, new_questions_text)
     /\ dest # DestBefore
     /\ Len(dest) - Len(DestBefore) = Len(DestBefore) - Len(earlier)
     /\ Len(dest) = Len(before[1].dest) + runs * Len(new_questions_text)

\* The destination holds the re-emitted line i once per run.
HeldPerRun(i) ==
  Occurrences(dest, js_questions[i] \o <<",", NL>>) >= runs * Copies(js_questions, i)

\* C6, as claimed: the insertion is not idempotent.  A run on the destination
\* an earlier run wrote, with the source unchanged, inserts the same block
\* again at index 773: the file grows by the amount it grew by before, and
\* after r runs holds every re-emitted line r times; no run changes the source.
C6_RunsDuplicate ==
  /\ \A r \in 1..runs : before[r].src = src
  /\ (pc = "done" /\ runs >= 2) =>
       /\ InsertedAgain
       /\ \A i \in 1..Len(js_questions) : HeldPerRun(i)

\* C6, amended: the same, the destination holding r times every re-emitted
\* line that has no line break inside it.
C6_RunsDuplicate_OneLine ==
  /\ \A r \in 1..runs : before[r].src = src
  /\ (pc = "done" /\ runs >= 2) =>
       /\ InsertedAgain
       /\ \A i \in 1..Len(js_questions) :
            ~Contains(js_questions[i], <<NL>>) => HeldPerRun(i)

C6_Witness ==
  /\ pc = "done"
  /\ runs = 2
  /\ src = ScenarioDoc
  /\ LineCount(before[1].dest) > insert_line
  /\ SubSeq(ReadLines(dest), insert_line + 1, insert_line + 5)
       = << JsText1 \o <<",", NL>>, JsText2 \o <<",", NL>>,
            JsText1 \o <<",", NL>>, JsText2 \o <<",", NL>>, <<"]", ";", NL>> >>

\* Where the text after the first 'test5_questions = [' starts.
BodyStart(t) == MinOf({i \in 1..Len(t) : MatchAt(t, i, ArrayOpen)}) + Len(ArrayOpen)

\* The line breaks from s on that are followed by a line that is "]" alone.
SoleBracketLines(t, s) ==
  {j \in s..Len(t) : MatchAt(t, j, ArrayClose) /\ (j + 2 > Len(t) \/ t[j + 2] = NL)}

\* C7: for a document that holds 'test5_questions = [', the
\* extracted body is the text from that bracket up to the next line that is
\* "]" alone, and does not end at a line that only begins with "]".
C7_EndsAtSoleBracketLine ==
  (/\ pc \notin {"read_source", "extract"}
   /\ Contains(content, ArrayOpen)
   /\ SoleBracketLines(content, BodyStart(content)) # {}) =>
    /\ Extracted
    /\ array_content
         = SubSeq(content, BodyStart(content),
                  MinOf(SoleBracketLines(content, BodyStart(content))) - 1)

\* A decimal numeral without a leading zero.
IsNumeral(t) ==
  /\ t # <<>>
  /\ \A k \in 1..Len(t) : IsDigit(t[k])
  /\ Len(t) > 1 => t[1] # "0"

\* A JavaScript array literal of numerals read back: [ok |-> it is one,
\* v |-> its numbers].
JsIntArray(t) ==
  IF ~(Len(t) >= 2 /\ t[1] = "[" /\ t[Len(t)] = "]") THEN [ok |-> FALSE, v |-> <<>>]
  ELSE LET inner == SubSeq(t, 2, Len(t) - 1)
           commas == SortedSeq({i \in 1..Len(inner) : inner[i] = ","})
           m == Len(commas)
           token(k) == Strip(SubSeq(inner,
                                    IF k = 1 THEN 1 ELSE commas[k - 1] + 1,
                                    IF k = m + 1 THEN Len(inner) ELSE commas[k] - 1))
       IN IF Strip(inner) = <<>> THEN [ok |-> TRUE, v |-> <<>>]
          ELSE IF \E k \in 1..(m + 1) : ~IsNumeral(token(k)) THEN [ok |-> FALSE, v |-> <<>>]
          ELSE [ok |-> TRUE,
                v |-> [k \in 1..(m + 1) |-> NatOf(token(k), 1, Len(token(k)) + 1)]]

\* The indices of an answer that is a sequence of integers.
Indices(a) == [k \in 1..Len(a.v) |-> a.v[k].v]
IsIndexSeq(a, types) == a.t \in types /\ \A k \in 1..Len(a.v) : a.v[k].t = "int"

AnswerOpen == <<",", " ", "a", "n", "s", "w", "e", "r", ":", " ">>
ExplainOpen == <<",", " ", "e", "x", "p", "l", "a", "i", "n", ":", " ", "\"">>

\* The answer of question i is re-emitted as the numeral of an integer, and
\* as an array literal of the same indices for a sequence of one of the types.
AnswerReEmitted(i, types) ==
  LET a == Get(questions[i], K_answer)
      out == locals[i].answer_str
  IN /\ Contains(locals[i].js_q, AnswerOpen \o out \o ExplainOpen)
     /\ a.t = "int" => IsNumeral(out) /\ NatOf(out, 1, Len(out) + 1) = a.v
     /\ IsIndexSeq(a, types) => JsIntArray(out).ok /\ JsIntArray(out).v = Indices(a)

\* C8: an integer answer is re-emitted as its bare numeral, and
\* an answer that is a sequence of indices, a list or any other sequence the
\* literal syntax gives, as an array literal of the same indices in order.
C8_AnswerLiteral ==
  \A i \in 1..Len(locals) : AnswerReEmitted(i, {"list", "tuple"})

\* out is t with every double quote preceded by one added backslash and
\* nothing else changed: dropping the backslashes that stand before a double
\* quote gives t back.
Unescaped(out) ==
  LET keep == SortedSeq({j \in 1..Len(out) :
                           ~(out[j] = BSLASH /\ j < Len(out) /\ out[j + 1] = QUOTE)})
  IN [k \in 1..Len(keep) |-> out[keep[k]]]
EscapedOnce(t, out) ==
  /\ Len(out) = Len(t) + Count(t, QUOTE)
  /\ \A j \in 1..Len(out) : out[j] = QUOTE => (j > 1 /\ out[j - 1] = BSLASH)
  /\ Unescaped(out) = t

CatOpen == <<" ", " ", " ", " ", " ", " ", "{", " ", "c", "a", "t", ":", " ", "\"">>
QOpen == <<"\"", ",", " ", "q", ":", " ", "\"">>
OptionsOpen == <<"\"", ",", " ", "o", "p", "t", "i", "o", "n", "s", ":", " ">>
LineClose == <<"\"", " ", "}">>

\* C9: every double quote in the cat, q or explain of a parsed record is
\* re-emitted preceded by exactly one added backslash, the other characters of
\* the three fields are re-emitted unchanged and in order, and each field
\* stands in the line between the two double quotes that delimit it, which
\* are the only ones there without a backslash before them.
C9_QuotesEscapedOnce ==
  \A i \in 1..Len(locals) :
    LET q == questions[i]
        l == locals[i]
    IN /\ EscapedOnce(Get(q, K_cat).v, l.cat)
       /\ EscapedOnce(Get(q, K_q).v, l.question_text)
       /\ EscapedOnce(Get(q, K_explain).v, l.explain_text)
       /\ StartsWith(l.js_q, CatOpen \o l.cat \o QOpen \o l.question_text \o OptionsOpen)
       /\ EndsWith(l.js_q, ExplainOpen \o l.explain_text \o LineClose)
       /\ js_questions[i] = l.js_q

C9_Witness ==
  /\ pc = "done"
  /\ \E i \in 1..Len(locals) :
       /\ Get(questions[i], K_q).v = <<BSLASH, QUOTE>>
       /\ locals[i].question_text = <<BSLASH, BSLASH, QUOTE>>
       /\ Get(questions[i], K_explain).v = <<"u", NL, QUOTE, QUOTE>>
       /\ locals[i].explain_text = <<"u", NL, BSLASH, QUOTE, BSLASH, QUOTE>>

====
